---- MODULE Spec2Model ----
(***************************************************************************)
(* Model of src/python/faiss_index.py: a FAISS flat L2 index kept in the   *)
(* file faiss.index and a JSON list of texts kept in faiss_metadata.json.  *)
(* Every invocation of the program (ingest or query) is a process that     *)
(* loads both files, works on its in-memory copies and, for ingest only,   *)
(* writes both files back.                                                 *)
(*                                                                         *)
(* The two files are the only state that survives an invocation.  A file   *)
(* is absent, holds content that reads back as a value ("ok"), or holds    *)
(* content that does not ("corrupt": faiss.read_index raises on it,        *)
(* json.load raises JSONDecodeError on it).  Neither write of save_index   *)
(* is atomic: opening the file for writing empties it; the writer's buffer *)
(* (libc's for faiss.write_index, Python's for json.dump) passes the       *)
(* content on in several writes, the last of them when the file is closed; *)
(* each write goes to the writer's own position in the file, over whatever *)
(* the file holds by then.  The buffers are scaled down with the           *)
(* dimension, so that a file of one vector or of two texts already takes   *)
(* more than one write, as it does in the program.                         *)
(*                                                                         *)
(* An entry of the vector structure is [v, t, n0]: v is the float32 vector *)
(* FAISS stores; t and n0 are history fields FAISS does not store - the    *)
(* text the vector was ingested with and the structure size that ingest    *)
(* loaded - kept so that alignment and append positions can be stated.     *)
(* No operation of the program reads t or n0.                              *)
(***************************************************************************)
EXTENDS Integers, Sequences, FiniteSets, TLC

VARIABLES INDEX_FILE, METADATA_FILE, proc

vars == <<INDEX_FILE, METADATA_FILE, proc>>

(***************************************************************************)
(* Bounds of the model.                                                    *)
(***************************************************************************)
\* The dimension of the index; the program uses 1536, the model a small one.
VECTOR_DIM == 2
\* Longest ingest batch.
MaxBatch == 2
\* Largest number of vectors/texts the files may hold.
MaxTotal == 2
\* Largest k of a query (query's parameter; the command line passes 5).
MaxK == 3

Procs == {1, 2}
\* The length of a long text: two of them do not fit in the text buffer
\* that a list of short ones fits in (a few thousand characters in the
\* program).
LongTextLen == 13
\* A text is a sequence of characters: a short one and a long one.
ShortText(c) == <<c>>
LongText(c) == [i \in 1..LongTextLen |-> c]
\* The texts of the input records.
Texts == {ShortText("a"), LongText("b")}
\* Components of the input vectors.
Values == {0, 1}

\* All input vectors of length n.
VectorsOfLen(n) == [1..n -> Values]
\* Vectors of the right dimension.
ValidVectors == VectorsOfLen(VECTOR_DIM)
\* The embeddings an input file may carry: every valid vector, one vector
\* that is too short and one that is too long.
Embeddings ==
    ValidVectors \cup {[i \in 1..(VECTOR_DIM - 1) |-> 0], [i \in 1..(VECTOR_DIM + 1) |-> 0]}
\* A record of the data file: item["embedding"], item["text"].
Records == [embedding : Embeddings, text : Texts]
\* The data files: JSON lists of 0..MaxBatch records.
Batches == UNION {[1..n -> Records] : n \in 0..MaxBatch}
\* The query files: no "embedding" key, or one embedding.
Queries == {[has |-> FALSE, embedding |-> <<>>]} \cup [has : {TRUE}, embedding : Embeddings]

(***************************************************************************)
(* Files.                                                                  *)
(***************************************************************************)
\* A file: raw is its content (characters or bytes), data the value the
\* content reads back as (empty when it does not).  tags is a history
\* field of the structure file: for every byte of raw, the text and the
\* loaded size of the ingest that wrote it.
Absent == [kind |-> "absent", data |-> <<>>, raw |-> <<>>, tags |-> <<>>]
\* A file just opened for writing: it exists and is empty.
Truncated == [kind |-> "corrupt", data |-> <<>>, raw |-> <<>>, tags |-> <<>>]
\* A file with unreadable content.
Corrupt(raw) == [kind |-> "corrupt", data |-> <<>>, raw |-> raw, tags |-> <<>>]
\* A file whose content raw reads back as d.
Ok(d, raw) == [kind |-> "ok", data |-> d, raw |-> raw, tags |-> <<>>]

\* os.path.exists
Exists(f) == f.kind # "absent"

(***************************************************************************)
(* Pure functions.                                                         *)
(***************************************************************************)
\* numpy astype('float32') on an integer-valued number: a float32 has a 24
\* bit significand, so integers up to 2^24 are exact and the integers up
\* to 2^25 are rounded to the nearest even integer (ties to even).
Float32(x) ==
    IF x <= 16777216 THEN x
    ELSE IF x % 2 = 0 THEN x
    ELSE IF ((x - 1) \div 2) % 2 = 0 THEN x - 1 ELSE x + 1

\* np.array(vec).astype('float32') of one row.
AsFloat32(vec) == [i \in 1..Len(vec) |-> Float32(vec[i])]

\* np.array(embeddings) succeeds only when all rows have one length.
Uniform(data) == \A i, j \in 1..Len(data) : Len(data[i].embedding) = Len(data[j].embedding)

\* The second axis of embeddings_np for a non-empty uniform batch.
Dim(data) == Len(data[1].embedding)

\* IndexFlatL2 metric: squared Euclidean distance.
RECURSIVE L2sqrFrom(_, _, _)
L2sqrFrom(a, b, i) ==
    IF i > Len(a) THEN 0
    ELSE (a[i] - b[i]) * (a[i] - b[i]) + L2sqrFrom(a, b, i + 1)
L2sqr(a, b) == L2sqrFrom(a, b, 1)

\* index.ntotal
ntotal(index) == Len(index)

\* Rankings without the sort by distance: the stored order.
Rankings_stored_order(index, q) == {[i \in 1..Len(index) |-> i - 1]}

\* The orders in which index.search may rank all stored positions (0-based
\* labels): by non-decreasing distance; the order among equal distances is
\* left to the library.
Rankings(index, q) ==
    {r \in [1..Len(index) -> 0..(Len(index) - 1)] :
        /\ \A i, j \in 1..Len(index) : i # j => r[i] # r[j]
        /\ \A i \in 1..(Len(index) - 1) :
              L2sqr(index[r[i] + 1].v, q) <= L2sqr(index[r[i + 1] + 1].v, q)}

\* index.search(query_vector, k): indices[0], k labels, nearest first,
\* padded with -1 when fewer than k vectors are stored.
Search(index, q, k) ==
    {[i \in 1..k |-> IF i <= Len(index) THEN r[i] ELSE -1] : r \in Rankings(index, q)}

\* The loop of query with "idx < len(metadata)" as its only test: Python
\* reads metadata[-1] as the last text.
RECURSIVE RetrievedFrom_no_lower_bound(_, _, _)
RetrievedFrom_no_lower_bound(indices, metadata, i) ==
    IF i > Len(indices) THEN <<>>
    ELSE IF indices[i] < Len(metadata) /\ metadata # <<>>
         THEN <<metadata[IF indices[i] < 0 THEN Len(metadata) ELSE indices[i] + 1]>>
                 \o RetrievedFrom_no_lower_bound(indices, metadata, i + 1)
         ELSE RetrievedFrom_no_lower_bound(indices, metadata, i + 1)
Retrieved_no_lower_bound(indices, metadata) ==
    RetrievedFrom_no_lower_bound(indices, metadata, 1)

\* The loop of query with an out-of-range label clamped to the last text.
RECURSIVE RetrievedFrom_clamped(_, _, _)
RetrievedFrom_clamped(indices, metadata, i) ==
    IF i > Len(indices) THEN <<>>
    ELSE IF 0 <= indices[i] /\ metadata # <<>>
         THEN <<metadata[IF indices[i] < Len(metadata) THEN indices[i] + 1 ELSE Len(metadata)]>>
                 \o RetrievedFrom_clamped(indices, metadata, i + 1)
         ELSE RetrievedFrom_clamped(indices, metadata, i + 1)
Retrieved_clamped(indices, metadata) == RetrievedFrom_clamped(indices, metadata, 1)

\* The loop of query: the texts of the labels inside [0, len(metadata)).
RECURSIVE RetrievedFrom(_, _, _)
RetrievedFrom(indices, metadata, i) ==
    IF i > Len(indices) THEN <<>>
    ELSE IF 0 <= indices[i] /\ indices[i] < Len(metadata)
         THEN <<metadata[indices[i] + 1]>> \o RetrievedFrom(indices, metadata, i + 1)
         ELSE RetrievedFrom(indices, metadata, i + 1)
Retrieved(indices, metadata) == RetrievedFrom(indices, metadata, 1)

\* The loop of query, lines 126-127: the labels it warns about.
RECURSIVE WarnedFrom(_, _, _)
WarnedFrom(indices, metadata, i) ==
    IF i > Len(indices) THEN <<>>
    ELSE IF 0 <= indices[i] /\ indices[i] < Len(metadata)
         THEN WarnedFrom(indices, metadata, i + 1)
         ELSE <<indices[i]>> \o WarnedFrom(indices, metadata, i + 1)
Warned(indices, metadata) == WarnedFrom(indices, metadata, 1)

\* The entries index.add appends for a batch, on a structure of size n0.
NewEntries(data, n0) ==
    [i \in 1..Len(data) |->
        [v |-> AsFloat32(data[i].embedding), t |-> data[i].text, n0 |-> n0]]

\* texts
TextsOf(data) == [i \in 1..Len(data) |-> data[i].text]

(***************************************************************************)
(* The file formats: the characters json.dump writes and json.load         *)
(* parses, and the bytes faiss.write_index writes and faiss.read_index     *)
(* reads (the header with the dimension and the vector count, then the     *)
(* bytes of the float32 components row by row).  A text is a sequence of   *)
(* characters; the quote and the backslash are the characters json.dump    *)
(* has to escape.                                                          *)
(***************************************************************************)
\* Longest list of texts / of vectors saved in a round trip.
MaxList == 2
\* Longest text of a round trip.
MaxTextLen == 1

Quote == "\""
Backslash == "\\"
TextChars == {"a", Quote, Backslash}

RoundTripTexts == UNION {[1..n -> TextChars] : n \in 0..MaxTextLen}
RoundTripMetadata == UNION {[1..n -> RoundTripTexts] : n \in 0..MaxList}
RoundTripVectors == UNION {[1..n -> ValidVectors] : n \in 0..MaxList}

\* json.dump of a str without escaping.
EncodeString_unescaped(text) == <<Quote>> \o text \o <<Quote>>

\* json.dump of a str: quoted, with quote and backslash escaped.
RECURSIVE EscapeFrom(_, _)
EscapeFrom(text, i) ==
    IF i > Len(text) THEN <<>>
    ELSE (IF text[i] \in {Quote, Backslash} THEN <<Backslash, text[i]>> ELSE <<text[i]>>)
            \o EscapeFrom(text, i + 1)
EncodeString(text) == <<Quote>> \o EscapeFrom(text, 1) \o <<Quote>>

\* json.dump(metadata, f) writes the chunks of iterencode: "[" with the
\* first item, ", " with each further item, then "]"; "[]" for no item.
JsonChunks(metadata) ==
    IF metadata = <<>> THEN << <<"[", "]">> >>
    ELSE [i \in 1..(Len(metadata) + 1) |->
            IF i = 1 THEN <<"[">> \o EncodeString(metadata[1])
            ELSE IF i <= Len(metadata) THEN <<",", " ">> \o EncodeString(metadata[i])
            ELSE <<"]">>]

\* The pieces of a content, one after the other.
RECURSIVE ConcatFrom(_, _)
ConcatFrom(pieces, i) ==
    IF i > Len(pieces) THEN <<>> ELSE pieces[i] \o ConcatFrom(pieces, i + 1)
Concat(pieces) == ConcatFrom(pieces, 1)

\* json.dump(metadata, f): the characters that reach the file.
JsonDump(metadata) == Concat(JsonChunks(metadata))

\* The bytes a write past the end of a file leaves in between: zero bytes.
Nul == "NUL"

\* A failed parse (json.JSONDecodeError, or the error of faiss.read_index).
Failed == [ok |-> FALSE, value |-> <<>>, next |-> 0]

\* json.load: the characters of a string after its opening quote.
RECURSIVE ScanString(_, _, _)
ScanString(s, j, acc) ==
    IF j > Len(s) THEN Failed
    ELSE IF s[j] = Nul THEN Failed
    ELSE IF s[j] = Quote THEN [ok |-> TRUE, value |-> acc, next |-> j + 1]
    ELSE IF s[j] = Backslash
         THEN IF j + 1 <= Len(s) /\ s[j + 1] \in {Quote, Backslash}
              THEN ScanString(s, j + 2, Append(acc, s[j + 1]))
              ELSE Failed
    ELSE ScanString(s, j + 1, Append(acc, s[j]))

\* json.load: whitespace.
RECURSIVE SkipSpace(_, _)
SkipSpace(s, i) == IF i <= Len(s) /\ s[i] = " " THEN SkipSpace(s, i + 1) ELSE i

\* json.load: the items of an array, from the position where one is due.
RECURSIVE ParseItems(_, _, _)
ParseItems(s, i, acc) ==
    LET a == SkipSpace(s, i)
    IN IF a > Len(s) \/ s[a] # Quote THEN Failed
       ELSE LET r == ScanString(s, a + 1, <<>>)
                b == SkipSpace(s, r.next)
            IN IF ~r.ok \/ b > Len(s) THEN Failed
               ELSE IF s[b] = "," THEN ParseItems(s, b + 1, Append(acc, r.value))
               ELSE IF s[b] = "]" /\ SkipSpace(s, b + 1) > Len(s)
                    THEN [ok |-> TRUE, value |-> Append(acc, r.value), next |-> b + 1]
               ELSE Failed

\* json.load(f) of a file that holds the characters s.
JsonLoad(s) ==
    LET a == SkipSpace(s, 1)
        b == SkipSpace(s, a + 1)
    IN IF a > Len(s) \/ s[a] # "[" THEN Failed
       ELSE IF b <= Len(s) /\ s[b] = "]"
            THEN IF SkipSpace(s, b + 1) > Len(s)
                 THEN [ok |-> TRUE, value |-> <<>>, next |-> b + 1]
                 ELSE Failed
       ELSE ParseItems(s, a + 1, <<>>)

\* The fourcc "IxF2" that opens the file of a flat L2 index.
Fourcc == 843479113

\* The bytes of a float32 that the file keeps: the two high-order ones of
\* its four little-endian bytes (00 00 00 00 for 0.0, 00 00 80 3F for
\* 1.0; the two low-order bytes are zero in every value of the runs).
FloatBytes == 2
\* The bytes of the component x.  A float32 that is neither 0.0 nor 1.0
\* is denoted by its bit pattern, negated: -16128 is 0.5 (00 3F) and -128
\* is 2^-126 (80 00).
Float32Bytes(x) ==
    IF x = 0 THEN <<0, 0>>
    ELSE IF x = 1 THEN <<128, 63>>
    ELSE <<(-x) % 256, (-x) \div 256>>
\* The float32 of the bytes lo, hi.
BytesFloat32(lo, hi) ==
    IF lo = 0 /\ hi = 0 THEN 0
    ELSE IF lo = 128 /\ hi = 63 THEN 1
    ELSE -(256 * hi + lo)

\* The bytes of a row, component after component.
RECURSIVE RowBytesFrom(_, _)
RowBytesFrom(row, j) ==
    IF j > Len(row) THEN <<>> ELSE Float32Bytes(row[j]) \o RowBytesFrom(row, j + 1)

\* faiss.write_index of a flat index: the header (the fourcc, d and
\* ntotal, one byte each here; 45 bytes in the program), then the bytes of
\* the stored rows.
RECURSIVE FlattenFrom(_, _)
FlattenFrom(xb, i) ==
    IF i > Len(xb) THEN <<>> ELSE RowBytesFrom(xb[i], 1) \o FlattenFrom(xb, i + 1)
WriteIndex(xb) == <<Fourcc, VECTOR_DIM, Len(xb)>> \o FlattenFrom(xb, 1)

\* faiss.read_index: the rows back, or an error on a file that does not
\* start with the fourcc or ends before the rows its header announces; it
\* does not look past the last row.
ReadIndex(s) ==
    IF Len(s) < 3 \/ s[1] # Fourcc THEN Failed
    ELSE IF Len(s) < 3 + s[2] * s[3] * FloatBytes THEN Failed
    ELSE [ok |-> TRUE, next |-> 3 + s[2] * s[3] * FloatBytes + 1,
          value |-> [i \in 1..s[3] |->
                       [j \in 1..s[2] |->
                           BytesFloat32(s[3 + ((i - 1) * s[2] + j - 1) * FloatBytes + 1],
                                        s[3 + ((i - 1) * s[2] + j - 1) * FloatBytes + 2])]]]

\* The size of libc's stdio buffer, in bytes (4096 in the program, where
\* the header takes 45 bytes and one vector 6144): the file of an empty
\* structure fits in it, the file of one vector takes it one and a half
\* times, and the first block ends inside a float32 (the program's inside
\* component 1012 of the first vector, the 4096 - 45 bytes being no
\* multiple of 4).
IndexBuffer == 4
\* The chunk size of Python's text layer, in characters (8192 in the
\* program): a list of short texts fits in it, two long texts do not.
MetadataBuffer == 30
\* The size of the buffer under the text layer, in characters (the block
\* size of the file system, 4096, in the program): a list of short texts
\* fits in it, one long text does not.
WriteBuffer == 15

\* fwrite through libc's buffer: a content that fits stays in the buffer;
\* of a longer one the buffer leaves when it is full, the whole blocks
\* that follow leave in one write, and what is left (less than a block)
\* stays in the buffer.  What the buffer holds leaves at fclose.
Blocks(content, size) ==
    LET rest == Len(content) - size
        whole == rest - (rest % size)
    IN IF rest <= 0 THEN <<content>>
       ELSE <<SubSeq(content, 1, size)>>
               \o (IF whole > 0 THEN <<SubSeq(content, size + 1, size + whole)>> ELSE <<>>)
               \o <<SubSeq(content, size + whole + 1, Len(content))>>

\* f.write through Python's text layer: a chunk that does not fit with
\* what is pending makes the pending text leave first; the pending text
\* leaves as soon as it has reached the chunk size; what is pending at the
\* end leaves when the file is closed.
RECURSIVE BufferedFrom(_, _, _, _)
BufferedFrom(chunks, i, pending, size) ==
    IF i > Len(chunks) THEN <<pending>>
    ELSE LET full == Len(pending) + Len(chunks[i]) > size
             next == (IF full THEN <<>> ELSE pending) \o chunks[i]
         IN (IF full /\ pending # <<>> THEN <<pending>> ELSE <<>>)
               \o (IF Len(next) >= size
                   THEN <<next>> \o BufferedFrom(chunks, i + 1, <<>>, size)
                   ELSE BufferedFrom(chunks, i + 1, next, size))

\* The buffer under the text layer: a piece that fits with what the
\* buffer holds is kept; otherwise what the buffer holds is written to the
\* file, and the piece is written at once when it is larger than the
\* buffer and kept when it is not.  What the buffer holds at the end is
\* written when the file is closed.
RECURSIVE RawWritesFrom(_, _, _, _)
RawWritesFrom(pieces, i, held, size) ==
    IF i > Len(pieces) THEN (IF held = <<>> THEN <<>> ELSE <<held>>)
    ELSE IF Len(held) + Len(pieces[i]) <= size
         THEN RawWritesFrom(pieces, i + 1, held \o pieces[i], size)
         ELSE (IF held = <<>> THEN <<>> ELSE <<held>>)
                 \o (IF Len(pieces[i]) > size
                     THEN <<pieces[i]>> \o RawWritesFrom(pieces, i + 1, <<>>, size)
                     ELSE RawWritesFrom(pieces, i + 1, pieces[i], size))

\* The content faiss.write_index writes for an in-memory structure.
IndexContent(index) == WriteIndex([i \in 1..Len(index) |-> index[i].v])
\* The content json.dump writes for the texts.
MetadataContent(metadata) == JsonDump(metadata)

\* The writes of faiss.write_index, in order; the last one is fclose's.
IndexWrites(index) == Blocks(IndexContent(index), IndexBuffer)
\* The writes of json.dump and of the end of the with block, in order.
MetadataWrites(metadata) ==
    RawWritesFrom(BufferedFrom(JsonChunks(metadata), 1, <<>>, MetadataBuffer), 1, <<>>, WriteBuffer)

\* The position of a writer that has done the first n of its writes.
RECURSIVE OffsetAfter(_, _)
OffsetAfter(writes, n) == IF n = 0 THEN 0 ELSE OffsetAfter(writes, n - 1) + Len(writes[n])

\* write(2) of piece at position offset of a file that holds old: the
\* piece goes over what is there, what old has beyond it stays, and a
\* position past the end leaves a gap of fill.  Nothing written leaves
\* the file as it is.
WriteAt(old, offset, piece, fill) ==
    LET padded == IF offset > Len(old) THEN old \o [i \in 1..(offset - Len(old)) |-> fill]
                  ELSE old
    IN IF piece = <<>> THEN old
       ELSE SubSeq(padded, 1, offset) \o piece
               \o SubSeq(padded, offset + Len(piece) + 1, Len(padded))

\* History of a byte that belongs to no vector, or of a vector whose
\* bytes were written by different ingests.
NoTag == [t |-> <<>>, n0 |-> -1]
\* The history of the bytes of IndexContent(index).
IndexTags(index) ==
    [k \in 1..(3 + VECTOR_DIM * FloatBytes * Len(index)) |->
        IF k <= 3 THEN NoTag
        ELSE LET e == index[((k - 4) \div (VECTOR_DIM * FloatBytes)) + 1]
             IN [t |-> e.t, n0 |-> e.n0]]

\* The structure file with content raw, as faiss.read_index reads it.
IndexFile(raw, tags) ==
    LET r == ReadIndex(raw)
        d == raw[2] * FloatBytes
        tag(i) == IF d > 0 /\ \A j \in 1..d : tags[3 + (i - 1) * d + j] = tags[3 + (i - 1) * d + 1]
                  THEN tags[3 + (i - 1) * d + 1] ELSE NoTag
    IN IF r.ok
       THEN [Ok([i \in 1..Len(r.value) |-> [v |-> r.value[i], t |-> tag(i).t, n0 |-> tag(i).n0]],
                raw) EXCEPT !.tags = tags]
       ELSE [Corrupt(raw) EXCEPT !.tags = tags]

\* The metadata file with content raw, as json.load reads it.
MetadataFile(raw) ==
    LET r == JsonLoad(raw)
    IN IF r.ok
       THEN Ok(r.value, raw)
       ELSE Corrupt(raw)

\* The structure file f after the writer of index has done the first n
\* bytes of its next write, its writes so far being done.
IndexFileAfterWrite(f, index, done, n) ==
    LET offset == OffsetAfter(IndexWrites(index), done)
    IN IndexFile(WriteAt(f.raw, offset, SubSeq(IndexContent(index), offset + 1, offset + n), 0),
                 WriteAt(f.tags, offset, SubSeq(IndexTags(index), offset + 1, offset + n), NoTag))

\* The metadata file f after the writer of metadata has done the first n
\* characters of its next write, its writes so far being done.
MetadataFileAfterWrite(f, metadata, done, n) ==
    LET offset == OffsetAfter(MetadataWrites(metadata), done)
    IN MetadataFile(WriteAt(f.raw, offset,
                            SubSeq(MetadataContent(metadata), offset + 1, offset + n), Nul))

\* The structure file when index is written to it whole.
WrittenIndex(index) == IndexFile(IndexContent(index), IndexTags(index))
\* The metadata file when metadata is dumped to it whole.
WrittenMetadata(metadata) == MetadataFile(MetadataContent(metadata))

\* Whether file f reads back as the value d.
Holds(f, d) == f.kind = "ok" /\ f.data = d

(***************************************************************************)
(* Processes.                                                              *)
(***************************************************************************)
NoQuery == [has |-> FALSE, embedding |-> <<>>]

Idle ==
    [pc |-> "idle", op |-> "none", data |-> <<>>, query |-> NoQuery, k |-> 0,
     index |-> <<>>, metadata |-> <<>>, initial_size |-> 0, loaded |-> FALSE,
     searched |-> FALSE, status |-> 0, kind |-> "none", stdout |-> <<>>, count |-> 0,
     warnings |-> <<>>, killed_at |-> "none", written |-> 0, close_error |-> FALSE,
     pre |-> <<Absent, Absent>>]

\* sys.exit(status) or an uncaught exception (status 1), with what the run
\* printed on stdout and the count it reported.
Exit(p, status, kind, out, count) ==
    proc' = [proc EXCEPT ![p].pc = "done", ![p].status = status, ![p].kind = kind,
                         ![p].stdout = out, ![p].count = count]

\* The invocations that are running.
Running == {p \in Procs : proc[p].pc \notin {"idle", "done"}}

\* Records the running ingests have still to add to what they loaded.
RECURSIVE PendingOf(_)
PendingOf(S) ==
    IF S = {} THEN 0
    ELSE LET p == CHOOSE x \in S : TRUE
         IN (IF proc[p].op = "ingest" /\ proc[p].pc \in {"load_index", "load_metadata", "add"}
             THEN Len(proc[p].data) ELSE 0) + PendingOf(S \ {p})

\* The sizes of the files, of the files the running invocations started
\* from and of their in-memory copies.
Stored ==
    {Len(INDEX_FILE.data), Len(METADATA_FILE.data)}
        \cup {Len(proc[p].pre[i].data) : p \in Running, i \in 1..2}
        \cup {Len(proc[p].index) : p \in Running}
        \cup {Len(proc[p].metadata) : p \in Running}

\* The most records the files can come to hold when the running ingests
\* complete.
Held == (CHOOSE n \in Stored : \A m \in Stored : m <= n) + PendingOf(Procs)

Init ==
    /\ INDEX_FILE = Absent
    /\ METADATA_FILE = Absent
    /\ proc = [p \in Procs |-> Idle]

\* ingest_start without the "if not data" exit.
ingest_start_no_empty_check(p) ==
    /\ proc[p].pc = "idle"
    /\ \E data \in Batches :
          /\ Held + Len(data) <= MaxTotal
          /\ LET started == [Idle EXCEPT !.op = "ingest", !.data = data,
                                         !.pre = <<INDEX_FILE, METADATA_FILE>>]
             IN IF ~Uniform(data)
                THEN proc' = [proc EXCEPT ![p] =
                                [started EXCEPT !.pc = "done", !.status = 1, !.kind = "Uncaught"]]
                ELSE proc' = [proc EXCEPT ![p] = [started EXCEPT !.pc = "load_index"]]
    /\ UNCHANGED <<INDEX_FILE, METADATA_FILE>>

\* ingest, lines 61-77: read the data file (one of files), reject an empty
\* one, build the float32 array (numpy raises on rows of different
\* lengths).  The batch must fit in the room the model leaves.
ingest_start_from(p, files, room) ==
    /\ proc[p].pc = "idle"
    /\ \E data \in files :
          /\ Held + Len(data) <= room
          /\ LET started == [Idle EXCEPT !.op = "ingest", !.data = data,
                                         !.pre = <<INDEX_FILE, METADATA_FILE>>]
             IN IF data = <<>>
                THEN proc' = [proc EXCEPT ![p] =
                                [started EXCEPT !.pc = "done", !.status = 1, !.kind = "EmptyBatch"]]
                ELSE IF ~Uniform(data)
                THEN proc' = [proc EXCEPT ![p] =
                                [started EXCEPT !.pc = "done", !.status = 1, !.kind = "Uncaught"]]
                ELSE proc' = [proc EXCEPT ![p] = [started EXCEPT !.pc = "load_index"]]
    /\ UNCHANGED <<INDEX_FILE, METADATA_FILE>>

ingest_start(p) == ingest_start_from(p, Batches, MaxTotal)

\* query, lines 101-109: read the query file (one of files), reject one
\* without embedding.
query_start_from(p, files) ==
    /\ proc[p].pc = "idle"
    /\ \E q \in files :
          LET started == [Idle EXCEPT !.op = "query", !.query = q,
                                      !.pre = <<INDEX_FILE, METADATA_FILE>>]
          IN IF ~q.has
             THEN proc' = [proc EXCEPT ![p] =
                             [started EXCEPT !.pc = "done", !.status = 1, !.kind = "InvalidQuery"]]
             ELSE proc' = [proc EXCEPT ![p] = [started EXCEPT !.pc = "load_index"]]
    /\ UNCHANGED <<INDEX_FILE, METADATA_FILE>>

query_start(p) == query_start_from(p, Queries)

\* load_index_structure that saves the structure it creates.
load_index_structure_creates_file(p) ==
    /\ proc[p].pc = "load_index"
    /\ IF INDEX_FILE.kind = "corrupt"
       THEN /\ proc' = [proc EXCEPT ![p].pc = "done", ![p].status = 1, ![p].kind = "Uncaught",
                                    ![p].loaded = TRUE]
            /\ UNCHANGED INDEX_FILE
       ELSE /\ proc' = [proc EXCEPT ![p].pc = "load_metadata", ![p].loaded = TRUE,
                                    ![p].index = IF Exists(INDEX_FILE) THEN INDEX_FILE.data ELSE <<>>]
            /\ INDEX_FILE' = IF Exists(INDEX_FILE) THEN INDEX_FILE
                             ELSE WrittenIndex(<<>>)
    /\ UNCHANGED METADATA_FILE

\* load_index_structure that treats an unreadable structure file as it
\* treats unparsable metadata: it goes on with an empty structure.
load_index_structure_recovers(p) ==
    /\ proc[p].pc = "load_index"
    /\ proc' = [proc EXCEPT ![p].pc = "load_metadata", ![p].loaded = TRUE,
                            ![p].index = IF INDEX_FILE.kind = "ok" THEN INDEX_FILE.data ELSE <<>>]
    /\ UNCHANGED <<INDEX_FILE, METADATA_FILE>>

\* load_index, lines 27-32: read the structure or create an empty one; a
\* partial file makes faiss.read_index raise, which nothing catches.
load_index_structure(p) ==
    /\ proc[p].pc = "load_index"
    /\ IF INDEX_FILE.kind = "corrupt"
       THEN proc' = [proc EXCEPT ![p].pc = "done", ![p].status = 1, ![p].kind = "Uncaught",
                                 ![p].loaded = TRUE]
       ELSE proc' = [proc EXCEPT ![p].pc = "load_metadata", ![p].loaded = TRUE,
                                 ![p].index = IF Exists(INDEX_FILE) THEN INDEX_FILE.data ELSE <<>>]
    /\ UNCHANGED <<INDEX_FILE, METADATA_FILE>>

\* load_index, lines 35-47: read the metadata; an unparsable file is
\* replaced by an empty list.  Then line 80 (ingest) records ntotal.
load_index_metadata(p) ==
    /\ proc[p].pc = "load_metadata"
    /\ proc' = [proc EXCEPT ![p].pc = IF proc[p].op = "ingest" THEN "add" ELSE "search",
                            ![p].metadata = IF METADATA_FILE.kind = "ok"
                                            THEN METADATA_FILE.data ELSE <<>>,
                            ![p].initial_size = ntotal(proc[p].index)]
    /\ UNCHANGED <<INDEX_FILE, METADATA_FILE>>

\* ingest_add with an index.add that accepts any second axis.
ingest_add_any_dimension(p) ==
    /\ proc[p].pc = "add"
    /\ proc' = [proc EXCEPT ![p].pc = "write_index",
                   ![p].index = proc[p].index \o NewEntries(proc[p].data, ntotal(proc[p].index)),
                   ![p].metadata = proc[p].metadata \o TextsOf(proc[p].data)]
    /\ UNCHANGED <<INDEX_FILE, METADATA_FILE>>

\* ingest, lines 84-85: index.add and metadata.extend on the in-memory
\* copies; index.add raises when the array's second axis is not d.
ingest_add(p) ==
    /\ proc[p].pc = "add"
    /\ IF Dim(proc[p].data) # VECTOR_DIM
       THEN Exit(p, 1, "IngestionError", <<>>, 0)
       ELSE proc' = [proc EXCEPT ![p].pc = "write_index",
                        ![p].index = proc[p].index \o NewEntries(proc[p].data, ntotal(proc[p].index)),
                        ![p].metadata = proc[p].metadata \o TextsOf(proc[p].data)]
    /\ UNCHANGED <<INDEX_FILE, METADATA_FILE>>

\* save_index, line 51: faiss.write_index opens the file for writing,
\* which creates it or empties it.
save_index_structure_open(p) ==
    /\ proc[p].pc = "write_index"
    /\ INDEX_FILE' = Truncated
    /\ proc' = [proc EXCEPT ![p].pc = "writing_index", ![p].written = 0]
    /\ UNCHANGED METADATA_FILE

\* Whether the next write of p's open file is the one of the close.
AtLastWrite(p, writes) == proc[p].written + 1 = Len(writes)
\* The length of the next write of p's open file.
NextWriteLen(p, writes) == Len(writes[proc[p].written + 1])

\* save_index, line 51: faiss.write_index fills libc's buffer, which
\* passes a block on to the file, at the position this writer has reached.
save_index_structure_flush(p) ==
    /\ proc[p].pc = "writing_index"
    /\ ~AtLastWrite(p, IndexWrites(proc[p].index))
    /\ INDEX_FILE' = IndexFileAfterWrite(INDEX_FILE, proc[p].index, proc[p].written,
                                         NextWriteLen(p, IndexWrites(proc[p].index)))
    /\ proc' = [proc EXCEPT ![p].written = proc[p].written + 1]
    /\ UNCHANGED METADATA_FILE

\* save_index that writes the metadata where the structure write is
\* completed.
save_index_structure_after_metadata(p) ==
    /\ proc[p].pc = "writing_index"
    /\ AtLastWrite(p, IndexWrites(proc[p].index))
    /\ METADATA_FILE' = WrittenMetadata(proc[p].metadata)
    /\ proc' = [proc EXCEPT ![p].pc = "write_metadata", ![p].written = 0]
    /\ UNCHANGED INDEX_FILE

\* save_index, line 51: faiss.write_index closes the file, which passes on
\* what libc's buffer still holds; write_index returns.
save_index_structure(p) ==
    /\ proc[p].pc = "writing_index"
    /\ AtLastWrite(p, IndexWrites(proc[p].index))
    /\ INDEX_FILE' = IndexFileAfterWrite(INDEX_FILE, proc[p].index, proc[p].written,
                                         NextWriteLen(p, IndexWrites(proc[p].index)))
    /\ proc' = [proc EXCEPT ![p].pc = "write_metadata", ![p].written = 0]
    /\ UNCHANGED METADATA_FILE

\* save_index, line 51: faiss.write_index raises, either when it cannot
\* open the file (file untouched) or when a write of a block fails, which
\* leaves the part of the block that was written; ingest catches it
\* (lines 88-90).
save_index_structure_fails(p) ==
    /\ \/ /\ proc[p].pc = "write_index"
          /\ UNCHANGED INDEX_FILE
       \/ /\ proc[p].pc = "writing_index"
          /\ ~AtLastWrite(p, IndexWrites(proc[p].index))
          /\ \E n \in 0..(NextWriteLen(p, IndexWrites(proc[p].index)) - 1) :
                INDEX_FILE' = IndexFileAfterWrite(INDEX_FILE, proc[p].index, proc[p].written, n)
    /\ Exit(p, 1, "IngestionError", <<>>, 0)
    /\ UNCHANGED METADATA_FILE

\* save_index, line 51: the write of the close fails, which leaves the
\* part that was written.  faiss reports it on stderr only ("close
\* error"): write_index returns and save_index goes on.
save_index_structure_close_fails(p) ==
    /\ proc[p].pc = "writing_index"
    /\ AtLastWrite(p, IndexWrites(proc[p].index))
    /\ \E n \in 0..(NextWriteLen(p, IndexWrites(proc[p].index)) - 1) :
          INDEX_FILE' = IndexFileAfterWrite(INDEX_FILE, proc[p].index, proc[p].written, n)
    /\ proc' = [proc EXCEPT ![p].pc = "write_metadata", ![p].written = 0,
                            ![p].close_error = TRUE]
    /\ UNCHANGED METADATA_FILE

\* save_index, line 52: open(METADATA_FILE, "w") creates the file or
\* empties it.
save_index_metadata_open(p) ==
    /\ proc[p].pc = "write_metadata"
    /\ METADATA_FILE' = Truncated
    /\ proc' = [proc EXCEPT ![p].pc = "writing_metadata", ![p].written = 0]
    /\ UNCHANGED INDEX_FILE

\* save_index, line 53: json.dump fills Python's buffer, which passes the
\* pending text on to the file, at the position this writer has reached.
save_index_metadata_flush(p) ==
    /\ proc[p].pc = "writing_metadata"
    /\ ~AtLastWrite(p, MetadataWrites(proc[p].metadata))
    /\ METADATA_FILE' = MetadataFileAfterWrite(METADATA_FILE, proc[p].metadata, proc[p].written,
                                               NextWriteLen(p, MetadataWrites(proc[p].metadata)))
    /\ proc' = [proc EXCEPT ![p].written = proc[p].written + 1]
    /\ UNCHANGED INDEX_FILE

\* save_index that dumps the texts of the batch only, in one write.
save_index_metadata_batch_only(p) ==
    /\ proc[p].pc = "writing_metadata"
    /\ AtLastWrite(p, MetadataWrites(proc[p].metadata))
    /\ METADATA_FILE' = WrittenMetadata(TextsOf(proc[p].data))
    /\ proc' = [proc EXCEPT ![p].pc = "saved", ![p].written = 0]
    /\ UNCHANGED INDEX_FILE

\* save_index, lines 52-53: the end of the with block closes the file,
\* which passes on the text still pending; save_index returns.
save_index_metadata(p) ==
    /\ proc[p].pc = "writing_metadata"
    /\ AtLastWrite(p, MetadataWrites(proc[p].metadata))
    /\ METADATA_FILE' = MetadataFileAfterWrite(METADATA_FILE, proc[p].metadata, proc[p].written,
                                               NextWriteLen(p, MetadataWrites(proc[p].metadata)))
    /\ proc' = [proc EXCEPT ![p].pc = "saved", ![p].written = 0]
    /\ UNCHANGED INDEX_FILE

\* The most a failed write of length len leaves in the file: all of it.
\* What the buffer under the text layer holds (a piece that fitted in it,
\* or the rest of a larger piece that write(2) took only in part) is
\* written again when the file is closed, after the error was raised, and
\* that write may succeed.
MostOfFailedWrite(len) == len

\* save_index, lines 52-53: open(..., "w") raises (file untouched), or a
\* write of json.dump or of the close fails, which leaves the part that
\* was written (up to all of the piece), and nothing of what was to
\* follow; Python raises in each case and ingest catches it.
save_index_metadata_fails(p) ==
    /\ \/ /\ proc[p].pc = "write_metadata"
          /\ UNCHANGED METADATA_FILE
       \/ /\ proc[p].pc = "writing_metadata"
          /\ \E n \in 0..MostOfFailedWrite(NextWriteLen(p, MetadataWrites(proc[p].metadata))) :
                METADATA_FILE' =
                    MetadataFileAfterWrite(METADATA_FILE, proc[p].metadata, proc[p].written, n)
    /\ Exit(p, 1, "IngestionError", <<>>, 0)
    /\ UNCHANGED INDEX_FILE

\* ingest, lines 87 and 92: save_index has returned; the count is reported
\* and the process exits with status 0.
ingest_report(p) ==
    /\ proc[p].pc = "saved"
    /\ Exit(p, 0, "ok", <<>>, ntotal(proc[p].index) - proc[p].initial_size)
    /\ UNCHANGED <<INDEX_FILE, METADATA_FILE>>

\* query, lines 112-135: the empty-index exit, the search (index.search
\* raises when the query's length is not d, which nothing catches) and the
\* retrieval loop.
query_search(p) ==
    /\ proc[p].pc = "search"
    /\ IF ntotal(proc[p].index) = 0
       THEN Exit(p, 1, "EmptyIndex", <<(<<>>)>>, 0)
       ELSE IF Len(proc[p].query.embedding) # VECTOR_DIM
       THEN proc' = [proc EXCEPT ![p].pc = "done", ![p].status = 1, ![p].kind = "Uncaught",
                                 ![p].searched = FALSE]
       ELSE \E k \in 1..MaxK :
            \E indices \in Search(proc[p].index, AsFloat32(proc[p].query.embedding), k) :
               proc' = [proc EXCEPT ![p].pc = "done", ![p].status = 0, ![p].kind = "ok",
                                    ![p].searched = TRUE, ![p].k = k,
                                    ![p].stdout = <<Retrieved(indices, proc[p].metadata)>>,
                                    ![p].warnings = Warned(indices, proc[p].metadata)]
    /\ UNCHANGED <<INDEX_FILE, METADATA_FILE>>

\* The process has exited; the next invocation starts from nothing.
process_exit(p) ==
    /\ proc[p].pc = "done"
    /\ proc' = [proc EXCEPT ![p] = Idle]
    /\ UNCHANGED <<INDEX_FILE, METADATA_FILE>>

\* The process is killed between two of its steps; a kill while a file is
\* open for writing leaves the file as the open left it.  The process
\* ends with the status of a killed process; killed_at is the step it had
\* not yet completed.
crash(p) ==
    /\ proc[p].pc \notin {"idle", "done"}
    /\ UNCHANGED <<INDEX_FILE, METADATA_FILE>>
    /\ proc' = [proc EXCEPT ![p].pc = "done", ![p].status = 137, ![p].kind = "Killed",
                            ![p].killed_at = proc[p].pc]

\* One step of invocation p.
Step(p) ==
    \/ load_index_structure(p)
    \/ load_index_metadata(p)
    \/ ingest_add(p)
    \/ save_index_structure_open(p)
    \/ save_index_structure_flush(p)
    \/ save_index_structure(p)
    \/ save_index_structure_fails(p)
    \/ save_index_structure_close_fails(p)
    \/ save_index_metadata_open(p)
    \/ save_index_metadata_flush(p)
    \/ save_index_metadata(p)
    \/ save_index_metadata_fails(p)
    \/ ingest_report(p)
    \/ query_search(p)
    \/ process_exit(p)

\* No invocation is running.
AllIdle == \A p \in Procs : proc[p].pc = "idle"

\* A single caller: an invocation starts only when no other is running.
Next ==
    \/ AllIdle /\ ingest_start(1)
    \/ AllIdle /\ query_start(1)
    \/ Step(1)

Spec == Init /\ [][Next]_vars

\* A single caller whose invocations may also be killed.
NextCrash ==
    \/ Next
    \/ crash(1)

SpecCrash == Init /\ [][NextCrash]_vars

(***************************************************************************)
(* Vocabulary of the properties.                                           *)
(***************************************************************************)
Done(p) == proc[p].pc = "done"
IngestDone(p) == Done(p) /\ proc[p].op = "ingest"
QueryDone(p) == Done(p) /\ proc[p].op = "query"

\* The files as they were when invocation p started.
PreIndex(p) == proc[p].pre[1]
PreMetadata(p) == proc[p].pre[2]
FilesAsBefore(p) == INDEX_FILE = PreIndex(p) /\ METADATA_FILE = PreMetadata(p)

\* Same length, and every text is the text its vector was ingested with.
Aligned(index, metadata) ==
    /\ Len(index) = Len(metadata)
    /\ \A i \in 1..Len(index) : index[i].t = metadata[i]

\* A batch the contract of ingest accepts.
ValidBatch(data) ==
    /\ data # <<>>
    /\ \A i \in 1..Len(data) : Len(data[i].embedding) = VECTOR_DIM

\* A batch with at least one record of the wrong dimension.
HasWrongDim(data) == \E i \in 1..Len(data) : Len(data[i].embedding) # VECTOR_DIM

(***************************************************************************)
(* C1.  Starting from no files, whenever no invocation is running (every   *)
(* invocation so far has completed), the structure file holds as many      *)
(* vectors as the metadata file holds texts, and the text at position i is *)
(* the text ingested with the vector at position i.                        *)
(* The code breaks it: an ingest whose metadata write fails (C5) has       *)
(* already written the structure.                                          *)
(***************************************************************************)
C1_AlignedAfterCompleted == AllIdle => Aligned(INDEX_FILE.data, METADATA_FILE.data)

(***************************************************************************)
(* C2.  A successful ingest of a valid batch from any persisted state      *)
(* leaves the structure at its earlier size plus the batch size, the       *)
(* metadata as long as the structure, and reports the batch size.          *)
(* The code breaks the metadata part from a state where the structure      *)
(* already was longer than the metadata (left by a failed metadata write,  *)
(* C5): load_index repairs nothing.                                        *)
(***************************************************************************)
C2_IngestSizeAdditive ==
    \A p \in Procs :
        (IngestDone(p) /\ proc[p].status = 0 /\ ValidBatch(proc[p].data)) =>
            /\ Len(INDEX_FILE.data) = Len(PreIndex(p).data) + Len(proc[p].data)
            /\ Len(METADATA_FILE.data) = Len(INDEX_FILE.data)
            /\ proc[p].count = Len(proc[p].data)

(***************************************************************************)
(* C3.  A query (with an embedding) against an index with zero vectors     *)
(* prints the empty list and ends successfully.                            *)
(* The code breaks it: query prints the empty list and then leaves through *)
(* the "FAISS index is empty" error exit, with status 1 (lines 112-115).   *)
(***************************************************************************)
EmptyIndexQuery(p) ==
    /\ QueryDone(p)
    /\ proc[p].query.has
    /\ PreIndex(p).kind # "corrupt"
    /\ Len(PreIndex(p).data) = 0

C3_EmptyIndexQuerySucceeds ==
    \A p \in Procs :
        EmptyIndexQuery(p) => proc[p].stdout = <<(<<>>)>> /\ proc[p].status = 0

(***************************************************************************)
(* C4.  An ingest of a batch with a record of the wrong dimension never    *)
(* changes either file, and ends with exit status 1.                       *)
(***************************************************************************)
C4_WrongDimBatchRejected ==
    \A p \in Procs :
        (proc[p].op = "ingest" /\ HasWrongDim(proc[p].data)) =>
            /\ FilesAsBefore(p)
            /\ Done(p) => proc[p].status = 1

\* A batch of one valid and one malformed record has been rejected: the
\* valid record is in neither file.
C4_Witness ==
    \E p \in Procs :
        /\ IngestDone(p)
        /\ proc[p].status = 1
        /\ Len(proc[p].data) = 2
        /\ Len(proc[p].data[1].embedding) = VECTOR_DIM
        /\ Len(proc[p].data[2].embedding) # VECTOR_DIM
        /\ INDEX_FILE = PreIndex(p)
        /\ METADATA_FILE = PreMetadata(p)

(***************************************************************************)
(* C5.  An ingest that ends in the error caught around add/save leaves     *)
(* both files as they were before the invocation.                          *)
(* The code breaks it: save_index writes the structure file first, so a    *)
(* failing metadata write leaves the new structure on disk; a write that   *)
(* fails part-way leaves a partial file.                                   *)
(***************************************************************************)
C5_FailedSaveNoDurableChange ==
    \A p \in Procs :
        (IngestDone(p) /\ ValidBatch(proc[p].data) /\ proc[p].kind = "IngestionError") =>
            FilesAsBefore(p)

(***************************************************************************)
(* C6.  Original: after a valid batch was ingested into an empty index     *)
(* (every stored vector was added to an empty structure and the metadata   *)
(* holds the batch's texts), a query with the exact vector of any record   *)
(* of the batch returns that record's text first.                          *)
(***************************************************************************)
\* Query p ran its search on an index that is one batch, ingested whole
\* into an empty index.
QueriedOneBatch(p) ==
    /\ QueryDone(p)
    /\ proc[p].status = 0
    /\ proc[p].index # <<>>
    /\ \A i \in 1..Len(proc[p].index) : proc[p].index[i].n0 = 0
    /\ Aligned(proc[p].index, proc[p].metadata)

\* The query vector is the stored vector at position i (1-based).
ExactVectorOf(p, i) == proc[p].index[i].v = AsFloat32(proc[p].query.embedding)

C6_ExactVectorReturnsItsTextFirst ==
    \A p \in Procs :
        QueriedOneBatch(p) =>
            \A i \in 1..Len(proc[p].index) :
                ExactVectorOf(p, i) =>
                    /\ proc[p].stdout[1] # <<>>
                    /\ proc[p].stdout[1][1] = proc[p].index[i].t

(***************************************************************************)
(* C6, amended.  After a valid batch was ingested into an empty index, a   *)
(* query with the exact vector of a record r of the batch returns first    *)
(* the text of a record of the batch whose stored vector equals r's; that  *)
(* is r's own text when no other record of the batch has the same vector.  *)
(***************************************************************************)
C6_ExactVectorReturnsAnEqualVectorsTextFirst ==
    \A p \in Procs :
        QueriedOneBatch(p) =>
            \A i \in 1..Len(proc[p].index) :
                ExactVectorOf(p, i) =>
                    /\ proc[p].stdout[1] # <<>>
                    /\ \E j \in 1..Len(proc[p].index) :
                          /\ ExactVectorOf(p, j)
                          /\ proc[p].stdout[1][1] = proc[p].index[j].t
                    /\ (\A j \in 1..Len(proc[p].index) : ExactVectorOf(p, j) => j = i)
                          => proc[p].stdout[1][1] = proc[p].index[i].t

\* The query vector is the second record of a batch of two different
\* vectors with different texts.
C6_Witness ==
    \E p \in Procs :
        /\ QueriedOneBatch(p)
        /\ Len(proc[p].index) = 2
        /\ ExactVectorOf(p, 2)
        /\ ~ExactVectorOf(p, 1)
        /\ proc[p].index[1].t # proc[p].index[2].t

(***************************************************************************)
(* C7.  A query with a vector of the right dimension and k greater than    *)
(* the size of a non-empty index ends successfully with one printed list   *)
(* of at most index-size texts.                                            *)
(***************************************************************************)
\* Query p, well-formed, found a readable non-empty structure file.
QueriedNonEmpty(p) ==
    /\ QueryDone(p)
    /\ proc[p].query.has
    /\ Len(proc[p].query.embedding) = VECTOR_DIM
    /\ PreIndex(p).kind = "ok"
    /\ Len(PreIndex(p).data) > 0

C7_LargeKNeverRaises ==
    \A p \in Procs :
        QueriedNonEmpty(p) =>
            /\ proc[p].status = 0
            /\ proc[p].kind = "ok"
            /\ Len(proc[p].stdout) = 1
            /\ proc[p].k > ntotal(proc[p].index)
                  => Len(proc[p].stdout[1]) <= ntotal(proc[p].index)

\* k exceeds the size of an aligned index and every stored text came back.
C7_Witness ==
    \E p \in Procs :
        /\ QueriedNonEmpty(p)
        /\ proc[p].k > ntotal(proc[p].index)
        /\ Aligned(proc[p].index, proc[p].metadata)
        /\ Len(proc[p].stdout[1]) = ntotal(proc[p].index)

(***************************************************************************)
(* C8.  An ingest of an empty batch is over at once: exit status 1 from    *)
(* the empty-data check, nothing loaded, both files as before.             *)
(***************************************************************************)
C8_EmptyBatchRejectedBeforeLoad ==
    \A p \in Procs :
        (proc[p].op = "ingest" /\ proc[p].data = <<>>) =>
            /\ Done(p)
            /\ proc[p].status = 1
            /\ proc[p].kind = "EmptyBatch"
            /\ ~proc[p].loaded
            /\ FilesAsBefore(p)

C8_Witness ==
    \E p \in Procs :
        /\ IngestDone(p)
        /\ proc[p].data = <<>>
        /\ INDEX_FILE.kind = "ok"

(***************************************************************************)
(* C9.  A query whose input has no embedding, or an embedding of the       *)
(* wrong length, ends in the invalid-query rejection: exit status 1,       *)
(* nothing printed, nothing loaded.                                        *)
(* The code breaks it: only the missing embedding is checked (line 104).   *)
(* A wrong-length embedding reaches load_index; on an empty index it is    *)
(* answered like any query on an empty index, on a non-empty one           *)
(* index.search raises and nothing catches it.                             *)
(***************************************************************************)
C9_MalformedQueryIsInvalidQuery ==
    \A p \in Procs :
        (QueryDone(p)
            /\ (~proc[p].query.has \/ Len(proc[p].query.embedding) # VECTOR_DIM)) =>
            /\ proc[p].status = 1
            /\ proc[p].kind = "InvalidQuery"
            /\ proc[p].stdout = <<>>
            /\ ~proc[p].loaded

(***************************************************************************)
(* C10.  While a query runs, and when it has ended in whatever way, both   *)
(* files are what they were when it started.                               *)
(***************************************************************************)
C10_QueryReadOnly ==
    \A p \in Procs : proc[p].op = "query" => FilesAsBefore(p)

\* A query answered from files that hold data.
C10_Witness ==
    \E p \in Procs :
        /\ QueryDone(p)
        /\ proc[p].status = 0
        /\ proc[p].stdout[1] # <<>>
        /\ INDEX_FILE.kind = "ok"
        /\ METADATA_FILE.kind = "ok"

\* An Index in memory (vectors and texts, each of any length), no files.
InitRoundTrip ==
    /\ INDEX_FILE = Absent
    /\ METADATA_FILE = Absent
    /\ \E xb \in RoundTripVectors, metadata \in RoundTripMetadata :
          proc = [p \in Procs |->
                    IF p = 1
                    THEN [pc |-> "save", op |-> "roundtrip", index |-> xb, metadata |-> metadata,
                          index0 |-> xb, metadata0 |-> metadata, saves |-> 0,
                          pre |-> <<Absent, Absent>>]
                    ELSE Idle]

\* save_index, lines 49-53: both files are written; the content after the
\* first save is remembered in pre.
save_index(p) ==
    /\ proc[p].op = "roundtrip"
    /\ proc[p].pc = "save"
    /\ INDEX_FILE' = Ok(proc[p].index, Concat(Blocks(WriteIndex(proc[p].index), IndexBuffer)))
    /\ METADATA_FILE' =
          Ok(proc[p].metadata, Concat(MetadataWrites(proc[p].metadata)))
    /\ proc' = [proc EXCEPT ![p].pc = IF proc[p].saves = 0 THEN "load" ELSE "finished",
                            ![p].saves = proc[p].saves + 1,
                            ![p].pre = IF proc[p].saves = 0
                                       THEN <<INDEX_FILE', METADATA_FILE'>> ELSE proc[p].pre]

\* load_index, lines 20-47: both files are read back; a structure file
\* that cannot be read raises, a metadata file that cannot be parsed gives
\* an empty list.
load_index(p) ==
    /\ proc[p].op = "roundtrip"
    /\ proc[p].pc = "load"
    /\ LET xb == IF Exists(INDEX_FILE) THEN ReadIndex(INDEX_FILE.raw)
                 ELSE [ok |-> TRUE, value |-> <<>>, next |-> 0]
           md == IF Exists(METADATA_FILE) THEN JsonLoad(METADATA_FILE.raw) ELSE Failed
       IN proc' = [proc EXCEPT ![p].pc = IF xb.ok THEN "save" ELSE "raised",
                               ![p].index = xb.value,
                               ![p].metadata = IF md.ok THEN md.value ELSE <<>>]
    /\ UNCHANGED <<INDEX_FILE, METADATA_FILE>>

NextRoundTrip ==
    \/ save_index(1)
    \/ load_index(1)

SpecRoundTrip == InitRoundTrip /\ [][NextRoundTrip]_vars

(***************************************************************************)
(* C11.  After save_index and then load_index, the loaded structure holds  *)
(* the saved vectors in the saved order and the loaded metadata is the     *)
(* saved list of texts; saving what was loaded writes both files with the  *)
(* content the first save wrote.                                           *)
(***************************************************************************)
C11_SaveLoadRoundTrip ==
    \A p \in Procs :
        proc[p].op = "roundtrip" =>
            /\ proc[p].pc # "raised"
            /\ proc[p].saves >= 1 =>
                  /\ proc[p].index = proc[p].index0
                  /\ proc[p].metadata = proc[p].metadata0
            /\ proc[p].pc = "finished" =>
                  /\ INDEX_FILE = proc[p].pre[1]
                  /\ METADATA_FILE = proc[p].pre[2]

\* Save, load and save again of two vectors and two texts, one of them a
\* quote and one a backslash.
C11_Witness ==
    \E p \in Procs :
        /\ proc[p].op = "roundtrip"
        /\ proc[p].pc = "finished"
        /\ Len(proc[p].index0) = 2
        /\ proc[p].index0[1] # proc[p].index0[2]
        /\ proc[p].metadata0 = << <<Quote>>, <<Backslash>> >>

(***************************************************************************)
(* C12.  When load_index has returned, the loaded structure holds as many  *)
(* vectors as the loaded metadata holds texts, whatever files the program  *)
(* left behind.                                                            *)
(* The code breaks it: it loads each file on its own.  After a metadata    *)
(* write that failed (C5) the structure file is ahead of the metadata      *)
(* file, and an unparsable metadata file is replaced by an empty list      *)
(* while the structure keeps its vectors.                                  *)
(***************************************************************************)
C12_AlignedAfterLoad ==
    \A p \in Procs :
        proc[p].pc \in {"add", "search"} => ntotal(proc[p].index) = Len(proc[p].metadata)

(***************************************************************************)
(* C13.  save_index writes the structure before the metadata: until the    *)
(* structure file is opened neither file has changed, and an ingest of a   *)
(* valid batch onto an aligned state that is killed after the structure    *)
(* write and before the metadata write has completed leaves a readable     *)
(* structure file with more vectors than the metadata file has texts       *)
(* (the structure write having met no error).  A kill at the structure     *)
(* write never leaves new metadata.                                        *)
(***************************************************************************)
\* The files invocation p started from were aligned.
StartedAligned(p) ==
    /\ PreIndex(p).kind # "corrupt"
    /\ PreMetadata(p).kind # "corrupt"
    /\ Len(PreIndex(p).data) = Len(PreMetadata(p).data)

KilledAt(p, pc) == IngestDone(p) /\ proc[p].kind = "Killed" /\ proc[p].killed_at = pc
\* Killed before the structure write has completed.
KilledAtStructureWrite(p) == KilledAt(p, "write_index") \/ KilledAt(p, "writing_index")
\* Killed between the two writes or before the metadata write has completed.
KilledAtMetadataWrite(p) == KilledAt(p, "write_metadata") \/ KilledAt(p, "writing_metadata")

C13_StructureWrittenFirst ==
    \A p \in Procs :
        /\ (proc[p].op = "ingest" /\ proc[p].pc = "write_index") => FilesAsBefore(p)
        /\ KilledAtStructureWrite(p) => METADATA_FILE = PreMetadata(p)
        /\ (KilledAtMetadataWrite(p) /\ StartedAligned(p) /\ ~proc[p].close_error) =>
              /\ Holds(INDEX_FILE, proc[p].index)
              /\ Len(INDEX_FILE.data) = Len(PreIndex(p).data) + Len(proc[p].data)
              /\ Len(INDEX_FILE.data) > Len(METADATA_FILE.data)

\* An ingest onto one aligned vector/text pair was killed between the two
\* writes: two vectors, one text.
C13_Witness ==
    \E p \in Procs :
        /\ KilledAt(p, "write_metadata")
        /\ StartedAligned(p)
        /\ Len(PreIndex(p).data) = 1
        /\ METADATA_FILE = PreMetadata(p)
        /\ Len(INDEX_FILE.data) = 2
        /\ Len(METADATA_FILE.data) = 1

(***************************************************************************)
(* C14.  A well-formed query on a structure that holds more vectors than   *)
(* the metadata holds texts ends successfully.  Every label it did not     *)
(* answer is outside [0, len(metadata)) and was warned about; the texts    *)
(* it printed are the texts of distinct positions inside that range, in    *)
(* order of non-decreasing distance, none farther than a position inside   *)
(* the range that was left out; with k at least the structure size every   *)
(* text of the metadata is printed.                                        *)
(***************************************************************************)
\* The distance of the stored vector at 1-based position j to p's query.
DistanceAt(p, j) == L2sqr(proc[p].index[j].v, AsFloat32(proc[p].query.embedding))

QueriedMisaligned(p) ==
    /\ QueriedNonEmpty(p)
    /\ ntotal(proc[p].index) > Len(proc[p].metadata)

C14_MisalignedQuerySkips ==
    \A p \in Procs :
        QueriedMisaligned(p) =>
            /\ proc[p].status = 0
            /\ Len(proc[p].stdout) = 1
            /\ LET out == proc[p].stdout[1]
                   warned == proc[p].warnings
                   metadata == proc[p].metadata
               IN /\ Len(out) + Len(warned) = proc[p].k
                  /\ \A i \in 1..Len(warned) : warned[i] < 0 \/ warned[i] >= Len(metadata)
                  /\ proc[p].k >= ntotal(proc[p].index) => Len(out) = Len(metadata)
                  /\ \E pos \in [1..Len(out) -> 1..Len(metadata)] :
                        /\ \A i, j \in 1..Len(out) : i # j => pos[i] # pos[j]
                        /\ \A i \in 1..Len(out) : out[i] = metadata[pos[i]]
                        /\ \A i \in 1..(Len(out) - 1) :
                              DistanceAt(p, pos[i]) <= DistanceAt(p, pos[i + 1])
                        /\ \A j \in 1..Len(metadata) :
                              (\A i \in 1..Len(out) : pos[i] # j) =>
                                  \A i \in 1..Len(out) : DistanceAt(p, pos[i]) <= DistanceAt(p, j)

\* Two vectors, one text, k = 2: one text printed, label 1 warned about.
C14_Witness ==
    \E p \in Procs :
        /\ QueriedMisaligned(p)
        /\ ntotal(proc[p].index) = 2
        /\ Len(proc[p].metadata) = 1
        /\ proc[p].k = 2
        /\ Len(proc[p].stdout[1]) = 1
        /\ proc[p].warnings = <<1>>

(***************************************************************************)
(* Uncoordinated callers: two invocations of ingest, started at any time,  *)
(* whose steps interleave.  No write fails.  They start from no files or   *)
(* from the files an earlier ingest of one record has written.  The data   *)
(* files are a batch of one record and a batch of two records, of long     *)
(* texts, and there is room for both batches, so that the two invocations  *)
(* can save lists of different lengths from the same load.                 *)
(***************************************************************************)
FewBatches ==
    LET r1 == [embedding |-> <<0, 1>>, text |-> LongText("a")]
        r2 == [embedding |-> <<1, 0>>, text |-> LongText("b")]
    IN {<<r1>>, <<r2, r1>>}
\* The record of the earlier ingest.
StoredRecord == [embedding |-> <<1, 1>>, text |-> ShortText("a")]

InitConcurrent ==
    /\ proc = [p \in Procs |-> Idle]
    /\ \E stored \in {<<>>, <<StoredRecord>>} :
          IF stored = <<>>
          THEN INDEX_FILE = Absent /\ METADATA_FILE = Absent
          ELSE /\ INDEX_FILE = WrittenIndex(NewEntries(stored, 0))
               /\ METADATA_FILE = WrittenMetadata(TextsOf(stored))
ConcurrentQueries == {[has |-> TRUE, embedding |-> <<0, 1>>]}

NextConcurrent ==
    \/ \E p \in Procs : ingest_start_from(p, FewBatches, MaxTotal + 2)
    \/ \E p \in Procs : load_index_structure(p)
    \/ \E p \in Procs : load_index_metadata(p)
    \/ \E p \in Procs : ingest_add(p)
    \/ \E p \in Procs : save_index_structure_open(p)
    \/ \E p \in Procs : save_index_structure_flush(p)
    \/ \E p \in Procs : save_index_structure(p)
    \/ \E p \in Procs : save_index_metadata_open(p)
    \/ \E p \in Procs : save_index_metadata_flush(p)
    \/ \E p \in Procs : save_index_metadata(p)
    \/ \E p \in Procs : ingest_report(p)

SpecConcurrent == InitConcurrent /\ [][NextConcurrent]_vars

\* A caller that ingests and a caller that queries, uncoordinated: the
\* query may load the files while the ingest has them open for writing.
NextQueryDuringIngest ==
    \/ ingest_start_from(1, FewBatches, MaxTotal)
    \/ load_index_structure(1)
    \/ load_index_metadata(1)
    \/ ingest_add(1)
    \/ save_index_structure_open(1)
    \/ save_index_structure_flush(1)
    \/ save_index_structure(1)
    \/ save_index_metadata_open(1)
    \/ save_index_metadata_flush(1)
    \/ save_index_metadata(1)
    \/ ingest_report(1)
    \/ process_exit(1)
    \/ query_start_from(2, ConcurrentQueries)
    \/ load_index_structure(2)
    \/ load_index_metadata(2)
    \/ query_search(2)
    \/ process_exit(2)

SpecQueryDuringIngest == Init /\ [][NextQueryDuringIngest]_vars

\* What invocation p loaded, recovered from what it then saved.
LoadedIndex(p) == SubSeq(proc[p].index, 1, proc[p].initial_size)
LoadedMetadata(p) == SubSeq(proc[p].metadata, 1, Len(proc[p].metadata) - Len(proc[p].data))

\* Both invocations ingested a valid batch, have gone through save_index
\* and had loaded the same structure and the same metadata.
BothSavedFromSameLoad ==
    /\ \A p \in Procs :
          /\ IngestDone(p)
          /\ ValidBatch(proc[p].data)
          /\ proc[p].kind = "ok"
    /\ LoadedIndex(1) = LoadedIndex(2)
    /\ LoadedMetadata(1) = LoadedMetadata(2)

NextIngestOnly ==
    \/ AllIdle /\ ingest_start_from(1, FewBatches, MaxTotal + 1)
    \/ load_index_structure(1)
    \/ load_index_metadata(1)
    \/ ingest_add(1)
    \/ save_index_structure_open(1)
    \/ save_index_structure_flush(1)
    \/ save_index_structure(1)
    \/ save_index_structure_fails(1)
    \/ save_index_structure_close_fails(1)
    \/ save_index_metadata_open(1)
    \/ save_index_metadata_flush(1)
    \/ save_index_metadata(1)
    \/ save_index_metadata_fails(1)
    \/ ingest_report(1)
    \/ process_exit(1)

SpecIngestOnly == Init /\ [][NextIngestOnly]_vars

(***************************************************************************)
(* C16.  After a successful ingest that loaded a parsable metadata file,   *)
(* the metadata before the call is a prefix of the metadata after it, the  *)
(* vectors stored before keep their positions, and the vectors and the     *)
(* texts of the batch are at positions N0 .. N0+|B|-1 (N0 the structure    *)
(* size the ingest loaded), in batch order.                                *)
(* The code breaks the position of the texts when the structure was ahead  *)
(* of the metadata (after a failed metadata write, C5): the texts go to    *)
(* the end of the metadata, not to the positions of their vectors.         *)
(***************************************************************************)
C16_IngestAppendsAtN0 ==
    \A p \in Procs :
        (IngestDone(p) /\ proc[p].status = 0 /\ PreMetadata(p).kind = "ok") =>
            LET N0 == proc[p].initial_size
                B == proc[p].data
            IN /\ Len(INDEX_FILE.data) = N0 + Len(B)
               /\ Len(METADATA_FILE.data) = N0 + Len(B)
               /\ Len(PreMetadata(p).data) <= Len(METADATA_FILE.data)
               /\ SubSeq(METADATA_FILE.data, 1, Len(PreMetadata(p).data)) = PreMetadata(p).data
               /\ SubSeq(INDEX_FILE.data, 1, N0) = PreIndex(p).data
               /\ \A j \in 1..Len(B) :
                     /\ INDEX_FILE.data[N0 + j].v = AsFloat32(B[j].embedding)
                     /\ METADATA_FILE.data[N0 + j] = B[j].text

(***************************************************************************)
(* C17.  Original: with a single caller, whatever failed or was killed,    *)
(* the vectors that can be read from the structure file are at least as    *)
(* many as the texts in the metadata file.                                 *)
(***************************************************************************)
\* The vectors faiss.read_index gets from the file: none when the file is
\* missing or partial.
VectorCount == IF INDEX_FILE.kind = "ok" THEN Len(INDEX_FILE.data) ELSE 0
\* The texts json.load gets from the file: none when it is missing or
\* unparsable.
MetadataLength == IF METADATA_FILE.kind = "ok" THEN Len(METADATA_FILE.data) ELSE 0

C17_StructureNeverShorter == VectorCount >= MetadataLength

(***************************************************************************)
(* C17, amended.  With a single caller, whatever failed or was killed:     *)
(* as long as the structure file is absent or complete, it holds at least  *)
(* as many vectors as the metadata file holds texts.  A structure write    *)
(* that was interrupted after the file was opened leaves an unreadable     *)
(* structure file: next to the metadata as it was when the ingest was      *)
(* killed or the failure was raised, and next to the new texts when the    *)
(* failure showed only at the close of the file and the ingest went on and *)
(* reported success.  From then on neither file changes: an invocation     *)
(* that reaches load_index ends there with an uncaught error and status 1, *)
(* and none ends with status 0.                                            *)
(***************************************************************************)
C17_ReadableStructureNeverShorter ==
    /\ INDEX_FILE.kind # "corrupt" => VectorCount >= MetadataLength
    /\ \A p \in Procs :
          (IngestDone(p) /\ INDEX_FILE.kind = "corrupt" /\ PreIndex(p).kind # "corrupt") =>
              /\ ~proc[p].close_error => METADATA_FILE = PreMetadata(p) /\ proc[p].status # 0
              /\ proc[p].status = 0 =>
                    proc[p].close_error /\ Holds(METADATA_FILE, proc[p].metadata)
    /\ \A p \in Procs :
          (proc[p].pc # "idle" /\ PreIndex(p).kind = "corrupt") =>
              /\ FilesAsBefore(p)
              /\ Done(p) => proc[p].status # 0
              /\ proc[p].loaded => Done(p) /\ proc[p].status = 1 /\ proc[p].kind = "Uncaught"

\* An ingest that found unparsable metadata has succeeded: two vectors,
\* one text.
C17_Witness ==
    \E p \in Procs :
        /\ IngestDone(p)
        /\ proc[p].status = 0
        /\ PreMetadata(p).kind = "corrupt"
        /\ VectorCount = 2
        /\ MetadataLength = 1

====
